---- MODULE Spec2Model ----
(***************************************************************************)
(* Model of the Arduino relay controller sketch                            *)
(* (arduino_relay/sketch_2025_10_14/sketch_2025_10_14.ino).                *)
(*                                                                         *)
(* Strings are sequences of one-character strings.  A uint32_t is a pair   *)
(* <<hi, lo>> of 16-bit limbs, so that millis() arithmetic keeps its       *)
(* 32-bit width.  The loop() body is modelled at two positions: the line   *)
(* read and dispatch (LoopRead) and the relay scheduler (LoopSched).       *)
(***************************************************************************)
EXTENDS Integers, Sequences, FiniteSets, TLC

(* ------------------------------ bounds -------------------------------- *)
\* most milliseconds that pass between two consecutive millis() readings
MaxAdvance == 1
\* most milliseconds that pass in one run, the idle period aside
MaxElapsed == 4
\* the idle period ends this many milliseconds before the counter wraps
NearWrap == 2

(* ------------------------- configuration ------------------------------ *)
RELAY_PINS == <<2, 3, 5, 7, 13>>
NUM_RELAYS == Len(RELAY_PINS)
RELAYS_ACTIVE_LOW == TRUE
MAX_LINE == 120

\* LED_BUILTIN and the width of int come from the board the sketch is built
\* for, not from the sketch: an AVR board (Uno, Leonardo) and a SAMD board (MKR).
Boards ==
    { [name |-> "avr",  LED_BUILTIN |-> 13, intBits |-> 16],
      [name |-> "samd", LED_BUILTIN |-> 6,  intBits |-> 32] }

HANDSHAKE_Q ==
    <<"H","i",","," ","a","r","e"," ","y","o","u"," ",
      "a","r","d","u","i","n","o","?">>
HANDSHAKE_A == "This is Arduino"

Channels == 1..NUM_RELAYS
RelayPinSet == { RELAY_PINS[i] : i \in Channels }

(* ------------------------- uint32_t arithmetic ------------------------ *)
Limb == 2^16
U32Zero == <<0, 0>>
\* (uint32_t)v for a long v, -2^31 < v < 2^31
ToU32(v) == <<(v \div Limb) % Limb, v % Limb>>
Add32(a, b) ==
    LET lo == a[2] + b[2]
        hi == a[1] + b[1] + (lo \div Limb)
    IN  <<hi % Limb, lo % Limb>>
Sub32(a, b) ==
    LET lo == a[2] - b[2]
        hi == a[1] - b[1] + (lo \div Limb)
    IN  <<hi % Limb, lo % Limb>>
Gt32(a, b) == a[1] > b[1] \/ (a[1] = b[1] /\ a[2] > b[2])
Ge32(a, b) == a = b \/ Gt32(a, b)
NonZero32(a) == a # U32Zero

(* ----------------------------- String --------------------------------- *)
UpperCase == <<"A","B","C","D","E","F","G","H","I","J","K","L","M",
               "N","O","P","Q","R","S","T","U","V","W","X","Y","Z">>
LowerCase == <<"a","b","c","d","e","f","g","h","i","j","k","l","m",
               "n","o","p","q","r","s","t","u","v","w","x","y","z">>
Digits == <<"0","1","2","3","4","5","6","7","8","9">>

ToLower(c) ==
    IF \E k \in 1..26 : UpperCase[k] = c
    THEN LowerCase[CHOOSE k \in 1..26 : UpperCase[k] = c]
    ELSE c

\* isspace, the vertical tab aside (no line sent holds one)
IsSpace(c) == c \in {" ", "\t", "\n", "\r", "\f"}
IsDigit(c) == \E k \in 1..10 : Digits[k] = c
DigitVal(c) == (CHOOSE k \in 1..10 : Digits[k] = c) - 1

\* String::equalsIgnoreCase
EqualsIgnoreCase(s, t) ==
    /\ Len(s) = Len(t)
    /\ \A k \in 1..Len(s) : ToLower(s[k]) = ToLower(t[k])

\* String::startsWith
StartsWith(s, prefix) ==
    /\ Len(prefix) <= Len(s)
    /\ \A k \in 1..Len(prefix) : s[k] = prefix[k]

\* String::indexOf(ch, from): 0-based index of the first ch at or after
\* from, or -1
IndexOf(s, ch, from) ==
    LET hits == { k \in 0..(Len(s) - 1) : k >= from /\ s[k + 1] = ch }
    IN  IF hits = {} THEN -1
        ELSE CHOOSE k \in hits : \A j \in hits : k <= j

\* String::substring(left, right): characters left .. right-1, 0-based; the
\* parameters are unsigned, so a negative argument is an index past the end
Substring(s, left, right) ==
    LET ul == IF left < 0 THEN Len(s) + 1 ELSE left
        ur == IF right < 0 THEN Len(s) + 1 ELSE right
        l == IF ul > ur THEN ur ELSE ul
        r0 == IF ul > ur THEN ul ELSE ur
        r == IF r0 > Len(s) THEN Len(s) ELSE r0
    IN  IF l >= Len(s) THEN <<>> ELSE SubSeq(s, l + 1, r)

\* String::trim
RECURSIVE TrimLeft(_)
TrimLeft(s) ==
    IF s # <<>> /\ IsSpace(Head(s)) THEN TrimLeft(Tail(s)) ELSE s
RECURSIVE TrimRight(_)
TrimRight(s) ==
    IF s # <<>> /\ IsSpace(s[Len(s)])
    THEN TrimRight(SubSeq(s, 1, Len(s) - 1)) ELSE s
Trim(s) == TrimRight(TrimLeft(s))

\* String::toInt (atol): leading blanks, an optional sign, then digits up to
\* the first character that is no digit; 0 when there is no digit
\* (numerals beyond the range of long are not sent)
RECURSIVE DigitsValue(_, _)
DigitsValue(s, acc) ==
    IF s # <<>> /\ IsDigit(Head(s))
    THEN DigitsValue(Tail(s), acc * 10 + DigitVal(Head(s)))
    ELSE acc
ToInt(s) ==
    LET t == TrimLeft(s)
    IN  IF t = <<>> THEN 0
        ELSE IF Head(t) = "-" THEN 0 - DigitsValue(Tail(t), 0)
        ELSE IF Head(t) = "+" THEN DigitsValue(Tail(t), 0)
        ELSE DigitsValue(t, 0)

\* conversion of a long to the board's int
NarrowToInt(v, bits) ==
    LET m == v % (2^bits)
    IN  IF bits >= 32 THEN v
        ELSE IF m >= 2^(bits - 1) THEN m - 2^bits ELSE m

(* ----------------------------- keywords ------------------------------- *)
KW_PING ==
    <<"P","I","N","G">>
KW_LED_ON ==
    <<"L","E","D"," ","O","N">>
KW_LED_OFF ==
    <<"L","E","D"," ","O","F","F">>
KW_STATUS ==
    <<"S","T","A","T","U","S">>
KW_RELAY_ON ==
    <<"R","E","L","A","Y","_","O","N",";">>
KW_RELAY_ON_OVERWRITE ==
    <<"R","E","L","A","Y","_","O","N","_","O","V","E","R","W","R","I","T",
      "E",";">>

(* ------------------------------ state --------------------------------- *)
VARIABLES
    board,       \* the board of the build: LED_BUILTIN and the width of int
    ms,          \* the millisecond counter that millis() reads (uint32_t)
    up,          \* the sketch has run for longer than a line takes to arrive
    spent,       \* milliseconds passed since the idle period (bounds the run)
    pc,          \* position in loop(): "read" (line 169) or "sched" (line 176)
    rx,          \* bytes the transport holds for Serial.read()
    line,        \* loop()'s static String line
    ovf,         \* the overflow guard has emptied the line now being received
    pinLevel,    \* level last written to each output pin
    relayOnAt,   \* relayOnAt[]  (0 = none pending)
    relayOffAt,  \* relayOffAt[] (0 = none pending)
    disp,        \* what the read position of this iteration did
    cyc          \* per channel: the last accepted arm and what followed it

vars == <<board, ms, up, spent, pc, rx, line, ovf, pinLevel,
          relayOnAt, relayOffAt, disp, cyc>>

(* ----------------------------- setRelay ------------------------------- *)
\* the level of the other polarity
RelayLevel_Inverted(on) ==
    IF RELAYS_ACTIVE_LOW
    THEN (IF on THEN "HIGH" ELSE "LOW")
    ELSE (IF on THEN "LOW" ELSE "HIGH")

\* the level setRelay writes (line 41)
RelayLevel(on) ==
    IF RELAYS_ACTIVE_LOW
    THEN (IF on THEN "LOW" ELSE "HIGH")
    ELSE (IF on THEN "HIGH" ELSE "LOW")

\* digitalWrite(pin, level)
DigitalWrite(lvl, pin, level) == [lvl EXCEPT ![pin] = level]

SetRelay(lvl, idx, on) == DigitalWrite(lvl, RELAY_PINS[idx], RelayLevel(on))

Energized(lvl, idx) == lvl[RELAY_PINS[idx]] = RelayLevel(TRUE)

(* ----------------------------- readLine ------------------------------- *)
\* the overflow guard of line 54
Overflows(out) == Len(out) > MAX_LINE

\* one pass of readLine's while loop over the byte c (lines 50-54);
\* st = [done, used, out, ovf]: returned true, bytes read, the line, the
\* guard has fired
ReadByte(st, c) ==
    IF st.done THEN st
    ELSE IF c = "\r" THEN [st EXCEPT !.used = @ + 1]
    ELSE IF c = "\n" THEN [st EXCEPT !.used = @ + 1, !.done = TRUE]
    ELSE IF Overflows(Append(st.out, c))
    THEN [st EXCEPT !.used = @ + 1, !.out = <<>>, !.ovf = TRUE]
    ELSE [st EXCEPT !.used = @ + 1, !.out = Append(st.out, c)]

\* the passes over bytes lo..hi of avail, in order
RECURSIVE ReadBytes(_, _, _, _)
ReadBytes(avail, lo, hi, st) ==
    IF lo > hi \/ st.done THEN st
    ELSE IF lo = hi THEN ReadByte(st, avail[lo])
    ELSE LET mid == (lo + hi) \div 2
         IN  ReadBytes(avail, mid + 1, hi, ReadBytes(avail, lo, mid, st))

\* readLine drains the available bytes up to the first '\n' (lines 46-57)
ReadLine(avail, out, guard) ==
    LET st == ReadBytes(avail, 1, Len(avail),
                        [done |-> FALSE, used |-> 0, out |-> out, ovf |-> guard])
    IN  [done |-> st.done,
         rx |-> SubSeq(avail, st.used + 1, Len(avail)),
         out |-> st.out, ovf |-> st.ovf]

(* --------------------------- handleCommand ---------------------------- *)
\* index of the first channel wired to pin, 0 when there is none (lines 94-96)
FindRelay(pin) ==
    IF \E i \in Channels : RELAY_PINS[i] = pin
    THEN CHOOSE i \in Channels :
            /\ RELAY_PINS[i] = pin
            /\ \A j \in Channels : RELAY_PINS[j] = pin => i <= j
    ELSE 0

\* the busy test of line 100
Busy(offAt, now) == Gt32(offAt, now)

\* the deadlines an arm stores (lines 106-107, 134-135)
ArmOnAt(now, delayMs) == Add32(now, ToU32(delayMs))
\* off_at with the duration taken off on_at instead of added to it
ArmOffAt_Subtracts(onAt, durMs) == Sub32(onAt, ToU32(durMs))
ArmOffAt(onAt, durMs) == Add32(onAt, ToU32(durMs))

\* the fields with the third ';' not asked for
RelayFields_TwoSeparators(cmd, intBits) ==
    LET p1 == IndexOf(cmd, ";", 0)
        p2 == IndexOf(cmd, ";", p1 + 1)
        p3 == IndexOf(cmd, ";", p2 + 1)
    IN  IF p1 < 0 \/ p2 < 0
        THEN [ok |-> FALSE, pin |-> 0, delayMs |-> 0, durMs |-> 0]
        ELSE [ok |-> TRUE,
              pin |-> NarrowToInt(ToInt(Substring(cmd, p1 + 1, p2)), intBits),
              delayMs |-> ToInt(Substring(cmd, p2 + 1, p3)),
              durMs |-> ToInt(Substring(cmd, p3 + 1, Len(cmd)))]

\* the three ';' of a relay command and its three fields (lines 84-91)
RelayFields(cmd, intBits) ==
    LET p1 == IndexOf(cmd, ";", 0)
        p2 == IndexOf(cmd, ";", p1 + 1)
        p3 == IndexOf(cmd, ";", p2 + 1)
    IN  IF p1 < 0 \/ p2 < 0 \/ p3 < 0
        THEN [ok |-> FALSE, pin |-> 0, delayMs |-> 0, durMs |-> 0]
        ELSE [ok |-> TRUE,
              pin |-> NarrowToInt(ToInt(Substring(cmd, p1 + 1, p2)), intBits),
              delayMs |-> ToInt(Substring(cmd, p2 + 1, p3)),
              durMs |-> ToInt(Substring(cmd, p3 + 1, Len(cmd)))]

\* st = [on, off, lvl]; the result adds out (the lines printed) and armed
\* (the channel whose deadlines were stored, 0 when none)
Reply(st, text) ==
    [on |-> st.on, off |-> st.off, lvl |-> st.lvl, out |-> <<text>>, armed |-> 0]

\* the RELAY_ON branch going on to the channel lookup after the ERR of a
\* parse failure
RelayOn_NoReturnAfterErr(cmd, now, st, intBits) ==
    LET f == RelayFields(cmd, intBits)
        i == FindRelay(f.pin)
        onAt == ArmOnAt(now, f.delayMs)
        first == IF ~f.ok THEN <<"ERR">> ELSE <<>>
    IN  IF i = 0 THEN [Reply(st, "ERR") EXCEPT !.out = first \o <<"ERR">>]
        ELSE IF Busy(st.off[i], now)
        THEN [Reply(st, "BUSY") EXCEPT !.out = first \o <<"BUSY">>]
        ELSE [on |-> [st.on EXCEPT ![i] = onAt],
              off |-> [st.off EXCEPT ![i] = ArmOffAt(onAt, f.durMs)],
              lvl |-> st.lvl, out |-> first \o <<"OK">>, armed |-> i]

\* the RELAY_ON branch storing the deadlines of a request it answers BUSY
RelayOn_ArmsWhenBusy(cmd, now, st, intBits) ==
    LET f == RelayFields(cmd, intBits)
        i == FindRelay(f.pin)
        onAt == ArmOnAt(now, f.delayMs)
    IN  IF ~f.ok THEN Reply(st, "ERR")
        ELSE IF i = 0 THEN Reply(st, "ERR")
        ELSE [on |-> [st.on EXCEPT ![i] = onAt],
              off |-> [st.off EXCEPT ![i] = ArmOffAt(onAt, f.durMs)],
              lvl |-> st.lvl,
              out |-> IF Busy(st.off[i], now) THEN <<"BUSY">> ELSE <<"OK">>,
              armed |-> i]

\* the RELAY_ON branch (lines 82-114)
RelayOn(cmd, now, st, intBits) ==
    LET f == RelayFields(cmd, intBits)
        i == FindRelay(f.pin)
        onAt == ArmOnAt(now, f.delayMs)
    IN  IF ~f.ok THEN Reply(st, "ERR")
        ELSE IF i = 0 THEN Reply(st, "ERR")
        ELSE IF Busy(st.off[i], now) THEN Reply(st, "BUSY")
        ELSE [on |-> [st.on EXCEPT ![i] = onAt],
              off |-> [st.off EXCEPT ![i] = ArmOffAt(onAt, f.durMs)],
              lvl |-> st.lvl, out |-> <<"OK">>, armed |-> i]

\* the RELAY_ON_OVERWRITE branch (lines 115-141)
RelayOnOverwrite(cmd, now, st, intBits) ==
    LET f == RelayFields(cmd, intBits)
        i == FindRelay(f.pin)
        onAt == ArmOnAt(now, f.delayMs)
    IN  IF ~f.ok THEN Reply(st, "ERR")
        ELSE IF i = 0 THEN Reply(st, "ERR")
        ELSE [on |-> [st.on EXCEPT ![i] = onAt],
              off |-> [st.off EXCEPT ![i] = ArmOffAt(onAt, f.durMs)],
              lvl |-> st.lvl, out |-> <<"OK">>, armed |-> i]

HandleCommand(cmd, now, st, brd) ==
    IF EqualsIgnoreCase(cmd, KW_PING) THEN Reply(st, "PONG")
    ELSE IF EqualsIgnoreCase(cmd, KW_LED_ON)
    THEN Reply([st EXCEPT !.lvl = DigitalWrite(st.lvl, brd.LED_BUILTIN, "HIGH")], "OK")
    ELSE IF EqualsIgnoreCase(cmd, KW_LED_OFF)
    THEN Reply([st EXCEPT !.lvl = DigitalWrite(st.lvl, brd.LED_BUILTIN, "LOW")], "OK")
    ELSE IF EqualsIgnoreCase(cmd, KW_STATUS) THEN Reply(st, "READY")
    ELSE IF EqualsIgnoreCase(cmd, HANDSHAKE_Q) THEN Reply(st, HANDSHAKE_A)
    ELSE IF StartsWith(cmd, KW_RELAY_ON) THEN RelayOn(cmd, now, st, brd.intBits)
    ELSE IF StartsWith(cmd, KW_RELAY_ON_OVERWRITE)
    THEN RelayOnOverwrite(cmd, now, st, brd.intBits)
    ELSE Reply(st, "ERR")

(* -------------------------- relay scheduler --------------------------- *)
\* the due tests of lines 180 and 184
OnDue(onAt, now) == NonZero32(onAt) /\ Ge32(now, onAt)
OffDue(offAt, now) == NonZero32(offAt) /\ Ge32(now, offAt)

\* one channel of the scheduler loop: the on check, then the off check
SchedChannel(i, now, st) ==
    LET a == IF OnDue(st.on[i], now)
             THEN [on |-> [st.on EXCEPT ![i] = U32Zero], off |-> st.off,
                   lvl |-> SetRelay(st.lvl, i, TRUE)]
             ELSE st
    IN  IF OffDue(a.off[i], now)
        THEN [on |-> a.on, off |-> [a.off EXCEPT ![i] = U32Zero],
              lvl |-> SetRelay(a.lvl, i, FALSE)]
        ELSE a

\* channels i .. NUM_RELAYS, in order (lines 178-188)
RECURSIVE Scheduler(_, _, _)
Scheduler(i, now, st) ==
    IF i > NUM_RELAYS THEN st
    ELSE Scheduler(i + 1, now, SchedChannel(i, now, st))

(* ------------------------------- setup -------------------------------- *)
\* setup(): the indicator LOW, then every relay off, in channel order
RECURSIVE SetupRelays(_, _)
SetupRelays(i, lvl) ==
    IF i > NUM_RELAYS THEN lvl
    ELSE SetupRelays(i + 1, SetRelay(lvl, i, FALSE))

SetupLevels(brd) ==
    SetupRelays(1,
        DigitalWrite([p \in RelayPinSet \cup {brd.LED_BUILTIN} |-> "LOW"],
                     brd.LED_BUILTIN, "LOW"))

NoCycle ==
    [by |-> "none", at |-> U32Zero, delayMs |-> 0, durMs |-> 0,
     evts |-> <<>>, ticks |-> 0]
NoDisp ==
    [got |-> FALSE, cmd |-> <<>>, now |-> U32Zero, out |-> <<>>,
     ovf |-> FALSE, armed |-> 0]

Init ==
    /\ board \in Boards
    /\ ms = U32Zero
    /\ up = FALSE
    /\ spent = 0
    /\ pc = "read"
    /\ rx = <<>>
    /\ line = <<>>
    /\ ovf = FALSE
    /\ pinLevel = SetupLevels(board)
    /\ relayOnAt = [i \in Channels |-> U32Zero]
    /\ relayOffAt = [i \in Channels |-> U32Zero]
    /\ disp = NoDisp
    /\ cyc = [i \in Channels |-> NoCycle]

(* --------------------------- ghost records ---------------------------- *)
\* the record of an arm accepted on a channel
ArmedCycle(cmd, now, intBits) ==
    LET f == RelayFields(cmd, intBits)
    IN  [by |-> IF StartsWith(cmd, KW_RELAY_ON)
                THEN "RELAY_ON" ELSE "RELAY_ON_OVERWRITE",
         at |-> now, delayMs |-> f.delayMs, durMs |-> f.durMs,
         evts |-> <<>>, ticks |-> 0]

\* the transitions a scheduler pass applied to channel i, in order
Fired(i, before, after) ==
    (IF NonZero32(before.on[i]) /\ after.on[i] = U32Zero
     THEN <<"on">> ELSE <<>>)
    \o (IF NonZero32(before.off[i]) /\ after.off[i] = U32Zero
        THEN <<"off">> ELSE <<>>)

Capped(s) == IF Len(s) > 3 THEN SubSeq(s, 1, 3) ELSE s

AfterTick(c, fired) ==
    IF c.by = "none" THEN c
    ELSE [c EXCEPT !.evts = Capped(c.evts \o fired),
                   !.ticks = IF c.ticks >= 2 THEN 2 ELSE c.ticks + 1]

(* ------------------------------ actions ------------------------------- *)
Sched == [on |-> relayOnAt, off |-> relayOffAt, lvl |-> pinLevel]

\* loop(), lines 169-174: d milliseconds have passed since the last
\* reading of millis(), and the bytes of arrived have reached the transport
LoopRead(d, arrived) ==
    /\ pc = "read"
    /\ spent + d <= MaxElapsed
    /\ arrived # <<>> => (up /\ rx = <<>>)
    /\ \E now \in {Add32(ms, ToU32(d))} :
       \E r \in {ReadLine(rx \o arrived, line, ovf)} :
       \E cmd \in {Trim(r.out)} :
       \E h \in {IF r.done /\ Len(cmd) > 0
                THEN HandleCommand(cmd, now, Sched, board)
                ELSE [on |-> relayOnAt, off |-> relayOffAt, lvl |-> pinLevel,
                      out |-> <<>>, armed |-> 0]} :
           /\ ms' = now
           /\ rx' = r.rx
           /\ line' = IF r.done THEN <<>> ELSE r.out
           /\ ovf' = IF r.done THEN FALSE ELSE r.ovf
           /\ relayOnAt' = h.on
           /\ relayOffAt' = h.off
           /\ pinLevel' = h.lvl
           /\ disp' = IF r.done
                      THEN [got |-> TRUE, cmd |-> cmd, now |-> now,
                            out |-> h.out, ovf |-> r.ovf, armed |-> h.armed]
                      ELSE NoDisp
           /\ cyc' = IF h.armed # 0
                     THEN [cyc EXCEPT ![h.armed] =
                              ArmedCycle(cmd, now, board.intBits)]
                     ELSE cyc
    /\ spent' = spent + d
    /\ pc' = "sched"
    /\ UNCHANGED <<board, up>>

\* the scheduler loop left out in an iteration that dispatched a line
LoopSched_SkipsAfterCommand(d) ==
    /\ pc = "sched"
    /\ spent + d <= MaxElapsed
    /\ \E now \in {Add32(ms, ToU32(d))} :
       \E s \in {IF disp.got /\ disp.cmd # <<>> THEN Sched
                 ELSE Scheduler(1, now, Sched)} :
           /\ ms' = now
           /\ relayOnAt' = s.on
           /\ relayOffAt' = s.off
           /\ pinLevel' = s.lvl
           /\ cyc' = [i \in Channels |-> AfterTick(cyc[i], Fired(i, Sched, s))]
    /\ spent' = spent + d
    /\ pc' = "read"
    /\ disp' = NoDisp
    /\ UNCHANGED <<board, up, rx, line, ovf>>

\* loop(), lines 176-188: d milliseconds have passed since the last
\* reading of millis()
LoopSched(d) ==
    /\ pc = "sched"
    /\ spent + d <= MaxElapsed
    /\ \E now \in {Add32(ms, ToU32(d))} :
       \E s \in {Scheduler(1, now, Sched)} :
           /\ ms' = now
           /\ relayOnAt' = s.on
           /\ relayOffAt' = s.off
           /\ pinLevel' = s.lvl
           /\ cyc' = [i \in Channels |-> AfterTick(cyc[i], Fired(i, Sched, s))]
    /\ spent' = spent + d
    /\ pc' = "read"
    /\ disp' = NoDisp
    /\ UNCHANGED <<board, up, rx, line, ovf>>

\* the counter NearWrap ms before it wraps, and in the middle of its range
WrapStart == Sub32(U32Zero, ToU32(NearWrap))
MidRange == ToU32(2^16)
IdleTargets == {MidRange, WrapStart}

\* A run of iterations with no byte to read and no deadline pending changes
\* nothing but the counter: the sketch idles for any time, here until the
\* counter is in the middle of its range or shortly before it wraps.  At
\* BAUD = 9600 a byte takes more than a millisecond on the wire, so no line
\* is complete before the first such period is over.
Idle ==
    /\ pc = "read"
    /\ rx = <<>>
    /\ \A i \in Channels : relayOnAt[i] = U32Zero /\ relayOffAt[i] = U32Zero
    /\ ms' \in IdleTargets \ {ms}
    /\ up' = TRUE
    /\ spent' = 0
    /\ disp' = NoDisp
    /\ cyc' = [i \in Channels |-> NoCycle]
    /\ UNCHANGED <<board, pc, rx, line, ovf, pinLevel, relayOnAt, relayOffAt>>

(* ------------------------- what the host sends ------------------------ *)
RECURSIVE Dec(_)
Dec(n) == IF n < 10 THEN <<Digits[n + 1]>>
          ELSE Dec(n \div 10) \o <<Digits[(n % 10) + 1]>>

RelayMsg(kw, pin, delayMs, durMs) ==
    kw \o Dec(pin) \o <<";">> \o Dec(delayMs) \o <<";">> \o Dec(durMs)
       \o <<"\n">>

\* what the host sends while the timing of the scheduler is examined
TimingMsgs ==
    { RelayMsg(KW_RELAY_ON, 13, 0, 0),
      RelayMsg(KW_RELAY_ON, 13, 0, 1),
      RelayMsg(KW_RELAY_ON, 13, 1, 2),
      RelayMsg(KW_RELAY_ON, 2, 1, 0),
      RelayMsg(KW_RELAY_ON_OVERWRITE, 13, 1, 1) }

\* what the host sends while the pins are examined
PinMsgs ==
    { RelayMsg(KW_RELAY_ON, 13, 0, 1),
      RelayMsg(KW_RELAY_ON_OVERWRITE, 13, 1, 1),
      RelayMsg(KW_RELAY_ON, 2, 1, 0),
      RelayMsg(KW_RELAY_ON, 99, 10, 10),
      RelayMsg(KW_RELAY_ON_OVERWRITE, 99, 10, 10),
      RelayMsg(KW_RELAY_ON, 65549, 0, 1),
      RelayMsg(KW_RELAY_ON_OVERWRITE, 65549, 0, 1),
      KW_LED_ON \o <<"\n">>,
      KW_LED_OFF \o <<"\n">> }

\* the shortest line the overflow guard acts on, without its terminator
OverLong == [k \in 1..(MAX_LINE + 1) |-> "x"]

\* what the host sends while the line buffer is examined
LineMsgs ==
    { OverLong,
      <<"\n">>,
      KW_PING \o <<"\n">>,
      KW_STATUS \o <<"\r", "\n">> \o KW_PING \o <<"\n">>,
      HANDSHAKE_Q }

\* a line in lower case
LowerLine(s) == [k \in 1..Len(s) |-> ToLower(s[k])]

\* what the host sends while the command parser is examined
ParseMsgs ==
    { LowerLine(KW_PING) \o <<"\n">>,
      LowerLine(KW_LED_ON) \o <<"\n">>,
      LowerLine(KW_LED_OFF) \o <<"\n">>,
      LowerLine(KW_STATUS) \o <<"\n">>,
      HANDSHAKE_Q \o <<"\n">>,
      LowerLine(HANDSHAKE_Q) \o <<"\n">>,
      <<"F", "O", "O", "\n">>,
      <<" ", "\t", "\r", "\n">>,
      KW_RELAY_ON \o Dec(5) \o <<";">> \o Dec(10) \o <<"\n">>,
      KW_RELAY_ON \o Dec(13) \o <<"\n">>,
      KW_RELAY_ON_OVERWRITE \o Dec(13) \o <<";">> \o Dec(1) \o <<"\n">>,
      RelayMsg(KW_RELAY_ON, 13, 0, 2),
      RelayMsg(KW_RELAY_ON, 99, 0, 1),
      KW_STATUS \o <<"\r", "\n">> \o KW_PING \o <<"\n">>
                \o KW_PING \o <<"\n">> }

Next ==
    \/ \E d \in 0..MaxAdvance, m \in TimingMsgs \cup {<<>>} : LoopRead(d, m)
    \/ \E d \in 0..MaxAdvance : LoopSched(d)
    \/ Idle

Spec == Init /\ [][Next]_vars

NextPin ==
    \/ \E d \in 0..MaxAdvance, m \in PinMsgs \cup {<<>>} : LoopRead(d, m)
    \/ \E d \in 0..MaxAdvance : LoopSched(d)
    \/ Idle

PinSpec == Init /\ [][NextPin]_vars

NextLine ==
    \/ \E d \in 0..MaxAdvance, m \in LineMsgs \cup {<<>>} : LoopRead(d, m)
    \/ \E d \in 0..MaxAdvance : LoopSched(d)
    \/ Idle

LineSpec == Init /\ [][NextLine]_vars

NextParse ==
    \/ \E d \in 0..MaxAdvance, m \in ParseMsgs \cup {<<>>} : LoopRead(d, m)
    \/ \E d \in 0..MaxAdvance : LoopSched(d)
    \/ Idle

ParseSpec == Init /\ [][NextParse]_vars

TypeOK ==
    /\ board \in Boards
    /\ pc \in {"read", "sched"}
    /\ spent \in 0..MaxElapsed
    /\ Len(line) <= MAX_LINE

(* ------------------------ reading the claims -------------------------- *)
\* the pin a relay command names: its pin field as a number, before any
\* conversion to the board's int
NamedPin(cmd) == RelayFields(cmd, 32).pin
NamedDelay(cmd) == RelayFields(cmd, 32).delayMs
NamedDur(cmd) == RelayFields(cmd, 32).durMs

IsRelayOn(cmd) == StartsWith(cmd, KW_RELAY_ON) /\ RelayFields(cmd, 32).ok
IsOverwrite(cmd) ==
    StartsWith(cmd, KW_RELAY_ON_OVERWRITE) /\ RelayFields(cmd, 32).ok

\* milliseconds from the reading at to the later reading now
ElapsedMs(at, now) == Sub32(now, at)[1] * Limb + Sub32(now, at)[2]

\* now - deadline, as the 32-bit difference, has its sign bit clear
WrapSafeDue(deadline, now) == Sub32(now, deadline)[1] < 2^15

\* the step is the read position dispatching a line
Dispatch == pc = "read" /\ pc' = "sched" /\ disp'.got /\ disp'.cmd # <<>>
\* the state is the one right after a line was dispatched
Dispatched == pc = "sched" /\ disp.got /\ disp.cmd # <<>>

Pending(i) == NonZero32(relayOnAt[i]) \/ NonZero32(relayOffAt[i])

\* C1: after an accepted RELAY_ON on a channel, a RELAY_ON on the same pin
\* dispatched before that cycle's off_at has elapsed replies BUSY and leaves
\* the channel's on_at and off_at unchanged.
C1_BusyUntilOffAt ==
    [][\A i \in Channels :
          ( /\ Dispatch
            /\ IsRelayOn(disp'.cmd)
            /\ NamedPin(disp'.cmd) = RELAY_PINS[i]
            /\ cyc[i].by = "RELAY_ON"
            /\ ElapsedMs(cyc[i].at, disp'.now)
                  < cyc[i].delayMs + cyc[i].durMs )
          => /\ disp'.out = <<"BUSY">>
             /\ relayOnAt'[i] = relayOnAt[i]
             /\ relayOffAt'[i] = relayOffAt[i]]_vars

\* C2: RELAY_ON_OVERWRITE never replies BUSY; on a configured pin it replies
\* OK and stores on_at = now + delay and off_at = now + delay + duration; on
\* an unconfigured pin it replies ERR.
C2_OverwriteAlwaysArms ==
    (Dispatched /\ IsOverwrite(disp.cmd)) =>
        /\ disp.out # <<"BUSY">>
        /\ \A i \in Channels :
              NamedPin(disp.cmd) = RELAY_PINS[i] =>
                 /\ disp.out = <<"OK">>
                 /\ relayOnAt[i] =
                       Add32(disp.now, ToU32(NamedDelay(disp.cmd)))
                 /\ relayOffAt[i] =
                       Add32(Add32(disp.now, ToU32(NamedDelay(disp.cmd))),
                             ToU32(NamedDur(disp.cmd)))
        /\ NamedPin(disp.cmd) \notin RelayPinSet => disp.out = <<"ERR">>

\* C3: after an accepted arm that no further arm follows, the scheduler
\* energizes the channel once and de-energizes it once, the energize first:
\* no other sequence of transitions is ever applied, and once nothing is
\* pending both have been applied.
C3_EachTransitionOnce ==
    \A i \in Channels :
       cyc[i].by # "none" =>
          /\ cyc[i].evts \in {<<>>, <<"on">>, <<"on", "off">>}
          /\ ~Pending(i) => cyc[i].evts = <<"on", "off">>

\* C4: a scheduler pass whose reading of the counter has wrapped to just
\* after zero fires and clears every deadline that was set just below the
\* counter's maximum (due by the wrap-safe difference).
C4_WrapSafeDue ==
    [][pc = "sched" =>
         \A i \in Channels :
            /\ ( /\ NonZero32(relayOnAt[i])
                 /\ relayOnAt[i][1] = Limb - 1
                 /\ ms'[1] = 0
                 /\ WrapSafeDue(relayOnAt[i], ms') )
               => (relayOnAt'[i] = U32Zero /\ "on" \in
                      { Fired(i, Sched, Sched')[k] :
                           k \in 1..Len(Fired(i, Sched, Sched')) })
            /\ ( /\ NonZero32(relayOffAt[i])
                 /\ relayOffAt[i][1] = Limb - 1
                 /\ ms'[1] = 0
                 /\ WrapSafeDue(relayOffAt[i], ms') )
               => relayOffAt'[i] = U32Zero]_vars

\* C5: a RELAY_ON (no overwrite) is never accepted on a channel that still
\* has a transition pending.
C5_OnlyOverwriteSupersedes ==
    [][\A i \in Channels :
          ( /\ Dispatch
            /\ IsRelayOn(disp'.cmd)
            /\ NamedPin(disp'.cmd) = RELAY_PINS[i]
            /\ Pending(i) )
          => /\ disp'.armed # i
             /\ relayOnAt'[i] = relayOnAt[i]
             /\ relayOffAt'[i] = relayOffAt[i]]_vars

\* C6 as stated: whenever both on_at and off_at of a channel are pending,
\* off_at > on_at.
C6_OffAfterOn ==
    \A i \in Channels :
       (NonZero32(relayOnAt[i]) /\ NonZero32(relayOffAt[i]))
          => Gt32(relayOffAt[i], relayOnAt[i])

\* C6 as amended: whenever both on_at and off_at of a channel are pending,
\* off_at is not before on_at in the wrap-safe order of the counter:
\* off_at - on_at, as the 32-bit difference, is the duration of the accepted
\* request, which may be zero.
C6_OffNotBeforeOn ==
    \A i \in Channels :
       (NonZero32(relayOnAt[i]) /\ NonZero32(relayOffAt[i]))
          => /\ WrapSafeDue(relayOnAt[i], relayOffAt[i])
             /\ cyc[i].by # "none"
             /\ Sub32(relayOffAt[i], relayOnAt[i]) = ToU32(cyc[i].durMs)

\* both deadlines pending, with off_at at or below on_at as plain numbers
C6_Witness ==
    \E i \in Channels :
       /\ NonZero32(relayOnAt[i]) /\ NonZero32(relayOffAt[i])
       /\ Gt32(relayOnAt[i], relayOffAt[i])
       /\ cyc[i].durMs > 0

\* C7: the level of a relay pin changes only in a scheduler pass that fires
\* a transition of that pin's own channel.
C7_OnlyTickDrivesRelays ==
    [][\A i \in Channels :
          pinLevel'[RELAY_PINS[i]] # pinLevel[RELAY_PINS[i]]
             => (pc = "sched" /\ Fired(i, Sched, Sched') # <<>>)]_vars

\* C8: when the terminator of a line that grew past MAX_LINE characters
\* arrives, the buffer is empty: nothing of the line is dispatched and
\* nothing is replied.
C8_OverlongDiscarded ==
    (pc = "sched" /\ disp.got /\ disp.ovf)
       => (disp.cmd = <<>> /\ disp.out = <<>>)

\* C9: two scheduler passes after RELAY_ON;13;0;0 was accepted, channel 13
\* has been energized and then de-energized, is de-energized, and has
\* neither on_at nor off_at pending.
C9_ZeroZeroPulse ==
    \A i \in Channels :
       ( /\ RELAY_PINS[i] = 13
         /\ cyc[i].by = "RELAY_ON"
         /\ cyc[i].delayMs = 0 /\ cyc[i].durMs = 0
         /\ cyc[i].ticks >= 2 )
       => /\ cyc[i].evts = <<"on", "off">>
          /\ ~Pending(i)
          /\ ~Energized(pinLevel, i)

\* C10: a RELAY_ON or RELAY_ON_OVERWRITE naming a pin that is not configured
\* replies ERR and changes no on_at, off_at or output level.
C10_UnknownPinErr ==
    [][( /\ Dispatch
         /\ IsRelayOn(disp'.cmd) \/ IsOverwrite(disp'.cmd)
         /\ NamedPin(disp'.cmd) \notin RelayPinSet )
       => /\ disp'.out = <<"ERR">>
          /\ relayOnAt' = relayOnAt
          /\ relayOffAt' = relayOffAt
          /\ pinLevel' = pinLevel]_vars

\* the number of ch in s
RECURSIVE CountChar(_, _)
CountChar(s, ch) ==
    IF s = <<>> THEN 0
    ELSE (IF Head(s) = ch THEN 1 ELSE 0) + CountChar(Tail(s), ch)

\* s begins with kw, in whatever case
BeginsWith(s, kw) ==
    Len(kw) <= Len(s) /\ EqualsIgnoreCase(SubSeq(s, 1, Len(kw)), kw)

\* no keyword of the protocol begins the line
UnknownKeyword(cmd) ==
    \A kw \in {KW_PING, KW_LED_ON, KW_LED_OFF, KW_STATUS, HANDSHAKE_Q,
               <<"R","E","L","A","Y","_","O","N">>} : ~BeginsWith(cmd, kw)

\* a relay line with fewer than three ';'
TooFewFields(cmd) ==
    /\ StartsWith(cmd, KW_RELAY_ON) \/ StartsWith(cmd, KW_RELAY_ON_OVERWRITE)
    /\ CountChar(cmd, ";") < 3

Malformed(cmd) == UnknownKeyword(cmd) \/ TooFewFields(cmd)

\* C11: a malformed line (an unknown keyword, or a relay line with fewer
\* than three ';') is answered ERR and leaves the deadlines and the pins as
\* they were, also when its pin field names a configured channel.
C11_MalformedErr ==
    [][(Dispatch /\ Malformed(disp'.cmd))
          => /\ disp'.out = <<"ERR">>
             /\ relayOnAt' = relayOnAt
             /\ relayOffAt' = relayOffAt
             /\ pinLevel' = pinLevel]_vars

\* RELAY_ON;5;10 was dispatched and answered ERR while a deadline was pending
C11_Witness ==
    /\ Dispatched
    /\ disp.cmd = KW_RELAY_ON \o Dec(5) \o <<";">> \o Dec(10)
    /\ TooFewFields(disp.cmd)
    /\ disp.out = <<"ERR">>
    /\ \E i \in Channels : Pending(i)

\* an unknown keyword was dispatched and answered ERR
C11_WitnessUnknown ==
    Dispatched /\ UnknownKeyword(disp.cmd) /\ disp.out = <<"ERR">>

\* C12: the handshake is matched in its exact case: the literal line is
\* answered This is Arduino and a line differing from it in case only is
\* answered ERR, while PING, LED ON, LED OFF and STATUS are accepted in
\* whatever case.
C12_HandshakeExactCase ==
    Dispatched =>
        /\ disp.cmd = HANDSHAKE_Q => disp.out = <<HANDSHAKE_A>>
        /\ (EqualsIgnoreCase(disp.cmd, HANDSHAKE_Q) /\ disp.cmd # HANDSHAKE_Q)
              => disp.out = <<"ERR">>
        /\ EqualsIgnoreCase(disp.cmd, KW_PING) => disp.out = <<"PONG">>
        /\ EqualsIgnoreCase(disp.cmd, KW_LED_ON) => disp.out = <<"OK">>
        /\ EqualsIgnoreCase(disp.cmd, KW_LED_OFF) => disp.out = <<"OK">>
        /\ EqualsIgnoreCase(disp.cmd, KW_STATUS) => disp.out = <<"READY">>

\* the line is a relay command by its keyword
RelayLine(cmd) ==
    StartsWith(cmd, KW_RELAY_ON) \/ StartsWith(cmd, KW_RELAY_ON_OVERWRITE)

InFuture(deadline, now) == ~WrapSafeDue(deadline, now)

\* C14: a RELAY_ON on a configured pin is answered BUSY exactly when the
\* channel's off_at is set and still in the future relative to now, whatever
\* its on_at; otherwise it is answered OK and stores on_at = now + delay and
\* off_at = on_at + duration in place of the prior values.
C14_BusyIffOffAtAhead ==
    [][\A i \in Channels :
          ( /\ Dispatch
            /\ IsRelayOn(disp'.cmd)
            /\ NamedPin(disp'.cmd) = RELAY_PINS[i] )
          => IF NonZero32(relayOffAt[i]) /\ InFuture(relayOffAt[i], disp'.now)
             THEN /\ disp'.out = <<"BUSY">>
                  /\ relayOnAt'[i] = relayOnAt[i]
                  /\ relayOffAt'[i] = relayOffAt[i]
             ELSE /\ disp'.out = <<"OK">>
                  /\ relayOnAt'[i]
                        = Add32(disp'.now, ToU32(NamedDelay(disp'.cmd)))
                  /\ relayOffAt'[i]
                        = Add32(relayOnAt'[i], ToU32(NamedDur(disp'.cmd)))]_vars

\* C15: in a tick the on check of a channel comes before its off check and
\* neither excludes the other: when on_at and off_at of a channel are both
\* due in a tick, that tick energizes the channel and then de-energizes it,
\* clears both, and leaves the channel de-energized.
C15_OnBeforeOffInOneTick ==
    [][pc = "sched" =>
          \A i \in Channels :
             ( /\ NonZero32(relayOnAt[i]) /\ WrapSafeDue(relayOnAt[i], ms')
               /\ NonZero32(relayOffAt[i]) /\ WrapSafeDue(relayOffAt[i], ms') )
             => /\ relayOnAt'[i] = U32Zero
                /\ relayOffAt'[i] = U32Zero
                /\ ~Energized(pinLevel', i)]_vars

\* C16: every iteration of loop() dispatches at most one completed line and
\* then makes one scheduler pass over all channels, whether or not a line
\* was completed: the read position takes at most one terminator from the
\* bytes waiting and leaves the rest, it is always followed by the scheduler
\* position, and the scheduler position applies the whole pass to the state
\* the read position left, so an arm is seen by the pass of its own
\* iteration.  Iterations pass unobserved only while nothing is waiting and
\* nothing is pending.
C16_OneLineThenOneTick ==
    [][/\ (pc = "read" /\ pc' = "sched" /\ rx # <<>>)
             => /\ CountChar(rx, "\n") - CountChar(rx', "\n")
                      = (IF disp'.got THEN 1 ELSE 0)
                /\ Len(rx') <= Len(rx)
                /\ rx' = SubSeq(rx, Len(rx) - Len(rx') + 1, Len(rx))
       /\ (pc = "read" /\ pc' = "read")
             => (rx = <<>> /\ \A i \in Channels : ~Pending(i))
       /\ pc = "sched"
             => /\ pc' = "read"
                /\ [on |-> relayOnAt', off |-> relayOffAt', lvl |-> pinLevel']
                      = Scheduler(1, ms', Sched)
                /\ (disp.armed # 0 /\ OnDue(relayOnAt[disp.armed], ms'))
                      => /\ relayOnAt'[disp.armed] = U32Zero
                         /\ cyc'[disp.armed].evts # <<>>]_vars

\* the pass of the iteration that accepted an arm has energized the channel
C16_Witness ==
    /\ pc = "read"
    /\ \E i \in Channels :
          /\ cyc[i].ticks = 1
          /\ cyc[i].evts = <<"on">>
          /\ Energized(pinLevel, i)

\* a pass has been made while a second and a third line were waiting
C16_WitnessLinesWait ==
    pc = "read" /\ CountChar(rx, "\n") = 2

\* the levels of the build's polarity
EnergizeLevel == IF RELAYS_ACTIVE_LOW THEN "LOW" ELSE "HIGH"
DeenergizeLevel == IF RELAYS_ACTIVE_LOW THEN "HIGH" ELSE "LOW"

\* C17: at startup every channel's pin is at the de-energized level of the
\* build's polarity with no on_at or off_at pending; a tick that applies
\* only the on transition to a channel leaves its pin at the energize level
\* (LOW when active-low, HIGH when active-high), and a tick that applies the
\* off transition leaves it at the opposite level.
C17_Polarity ==
    /\ \A i \in Channels :
          /\ pinLevel[RELAY_PINS[i]] = DeenergizeLevel
          /\ relayOnAt[i] = U32Zero
          /\ relayOffAt[i] = U32Zero
    /\ [][pc = "sched" =>
             \A i \in Channels :
                /\ ( /\ NonZero32(relayOnAt[i]) /\ relayOnAt'[i] = U32Zero
                     /\ relayOffAt'[i] = relayOffAt[i] )
                      => pinLevel'[RELAY_PINS[i]] = EnergizeLevel
                /\ (NonZero32(relayOffAt[i]) /\ relayOffAt'[i] = U32Zero)
                      => pinLevel'[RELAY_PINS[i]] = DeenergizeLevel]_vars

\* a channel has been energized and de-energized by the scheduler and its
\* pin is back at the de-energized level
C17_Witness ==
    \E i \in Channels :
       /\ cyc[i].evts = <<"on", "off">>
       /\ cyc[i].durMs > 0
       /\ pinLevel[RELAY_PINS[i]] = DeenergizeLevel
       /\ ~Pending(i)

\* the reply lines of the protocol
Replies == {"PONG", "OK", "READY", HANDSHAKE_A, "BUSY", "ERR"}

\* C18: a completed line that is not empty after trimming is answered with
\* exactly one line, one of PONG, OK, READY, This is Arduino, BUSY, ERR; a
\* completed line that is empty after trimming is answered with nothing and
\* changes no deadline and no pin.
C18_ExactlyOneReply ==
    [][(pc = "read" /\ pc' = "sched" /\ disp'.got)
          => IF disp'.cmd # <<>>
             THEN Len(disp'.out) = 1 /\ disp'.out[1] \in Replies
             ELSE /\ disp'.out = <<>>
                  /\ relayOnAt' = relayOnAt
                  /\ relayOffAt' = relayOffAt
                  /\ pinLevel' = pinLevel]_vars

\* a RELAY_ON naming pin 99 was answered with the one line ERR
C18_Witness ==
    /\ Dispatched
    /\ IsRelayOn(disp.cmd)
    /\ NamedPin(disp.cmd) = 99
    /\ disp.out = <<"ERR">>

\* a line of blanks was completed and answered with nothing
C18_WitnessEmpty ==
    pc = "sched" /\ disp.got /\ disp.cmd = <<>> /\ disp.out = <<>>

\* C19: no relay is left energized for ever: after an accepted arm the
\* channel comes to rest de-energized with on_at and off_at cleared.  A
\* channel with neither pending is changed by no tick, so a channel that was
\* armed and has neither on_at nor off_at pending is at rest, and at rest it
\* is de-energized.
C19_RestsDeenergized ==
    \A i \in Channels :
       (cyc[i].by # "none" /\ ~Pending(i)) => ~Energized(pinLevel, i)

\* C20: channels are independent: a RELAY_ON or RELAY_ON_OVERWRITE for pin p
\* that is answered OK changes on_at and off_at of the one channel whose
\* configured pin is p and of no other channel, and a tick changes the
\* timestamps and the pin of a channel only when a deadline of that very
\* channel is due.
C20_ChannelsIndependent ==
    [][/\ ( /\ Dispatch
            /\ IsRelayOn(disp'.cmd) \/ IsOverwrite(disp'.cmd)
            /\ disp'.out = <<"OK">> )
          => /\ \E i \in Channels : RELAY_PINS[i] = NamedPin(disp'.cmd)
             /\ \A i \in Channels :
                   RELAY_PINS[i] # NamedPin(disp'.cmd)
                      => /\ relayOnAt'[i] = relayOnAt[i]
                         /\ relayOffAt'[i] = relayOffAt[i]
       /\ pc = "sched"
          => \A i \in Channels :
                (~OnDue(relayOnAt[i], ms') /\ ~OffDue(relayOffAt[i], ms'))
                   => /\ relayOnAt'[i] = relayOnAt[i]
                      /\ relayOffAt'[i] = relayOffAt[i]
                      /\ pinLevel'[RELAY_PINS[i]] = pinLevel[RELAY_PINS[i]]]_vars

====
